---- MODULE Spec2Model ----
(***************************************************************************)
(* A model of Zeno's crawl engine: the Kafka bridge (kafkaProducer,        *)
(* kafkaConsumer, internal/pkg/crawl/kafka.go) and the capture path        *)
(* (executeGET, captureAsset, Capture, internal/pkg/crawl/capture.go).     *)
(* The frontier package, the worker pool and queueOutlinks are not part of *)
(* the sources at hand; they are modelled from the design document and     *)
(* marked so where they are defined.                                       *)
(***************************************************************************)
EXTENDS Integers, Sequences, FiniteSets, Bags, TLC

VARIABLES
    \* process-wide state of the Crawl aggregate
    Finished,              \* crawl.Finished
    Workers,               \* crawl.Workers (configuration)
    ActiveWorkers,         \* crawl.ActiveWorkers
    MaxHops,               \* crawl.MaxHops (configuration)
    MaxRedirect,           \* crawl.MaxRedirect (configuration)
    Seencheck,             \* crawl.Seencheck (configuration)
    UseKafka,              \* whether outlinks go to the Kafka producer
    \* frontier
    PushChan,              \* crawl.Frontier.PushChan
    queue,                 \* items admitted by the frontier, not yet popped
    QueueCount,            \* crawl.Frontier.QueueCount
    seen,                  \* crawl.Frontier.Seencheck: the marked hashes
    \* kafkaProducer
    KafkaProducerChannel,  \* crawl.KafkaProducerChannel
    ppc,                   \* the producer's position
    pItem,                 \* the loop variable item
    produced,              \* messages handed to a Produce call that succeeded
    prodFailed,            \* items whose Produce call returned an error
    prodFallback,          \* items the producer sent on PushChan
    prodDropped,           \* items received and neither produced nor pushed
    \* kafkaConsumer
    cpc,                   \* the consumer loop's position
    cObserved,             \* the value ActiveWorkers.Value() returned last
    readersStart,          \* reader tasks spawned that have not called ReadMessage
    readersPush,           \* reader tasks blocked on PushChan <- newItem
    poolSlots,             \* slots of kafkaWorkerPool that are held
    kafkaClosed,           \* kafkaClient.Close() was called
    feed,                  \* the messages waiting in the feed topic
    spawnsLeft,            \* reader tasks the run may still spawn (model bound)
    consPushed,            \* (message, item) pairs the reader tasks pushed
    nAccepted,             \* messages that decoded and whose u parsed
    nConsPushed,           \* items the reader tasks sent on PushChan
    readAfterClose,        \* a ReadMessage call was made on a closed client
    \* capture
    outlinkTasks,          \* the running queueOutlinks goroutines
    wk,                    \* the crawl workers: position and locals of Capture
    assetFetches,          \* hashes of the assets captureAsset requested, as a bag
    crashed                \* a goroutine panicked: the process is gone

frontierVars == <<PushChan, queue, QueueCount, seen>>
configVars   == <<Workers, MaxHops, MaxRedirect, Seencheck, UseKafka>>
producerVars == <<KafkaProducerChannel, ppc, pItem, produced, prodFailed,
                  prodFallback, prodDropped>>
consumerVars == <<cpc, cObserved, readersStart, readersPush, poolSlots, kafkaClosed, feed,
                  spawnsLeft, consPushed, nAccepted, nConsPushed, readAfterClose>>
captureVars  == <<outlinkTasks, wk, assetFetches, crashed>>
vars == <<Finished, ActiveWorkers, configVars, frontierVars, producerVars,
          consumerVars, captureVars>>

----------------------------------------------------------------------------
(* Bounds of the model *)

ChanCap        == 1   \* capacity given to the Go channels
MaxWorkers     == 11  \* crawl.Workers ranges over 1..MaxWorkers
MaxMsgs        == 1   \* messages waiting in the feed topic
MaxSpawns      == 2   \* reader tasks spawned in one run
MaxMsgHop      == 2   \* hop values carried by Kafka messages: 0..MaxMsgHop
MaxOutlinks    == 1   \* outlinks extracted from one page
MaxAssets      == 2   \* assets extracted from one page
MaxHopsBound   == 1   \* crawl.MaxHops ranges over 0..MaxHopsBound
MaxRedirBound  == 1   \* crawl.MaxRedirect ranges over 0..MaxRedirBound

(* Program constants *)

KafkaPoolSize  == 16  \* sizedwaitgroup.New(16)
Uint8          == 256 \* HopsCount uint8

----------------------------------------------------------------------------
(* URLs.  A URL value is the string url.URL.String() gives back; "a", "b"  *)
(* and "c" stand for http://a/, http://b/ and http://c/.  BadURL is a      *)
(* string url.Parse rejects (an invalid escape such as "%zz"); NilURL is   *)
(* the nil *url.URL of a zero-valued Item.                                 *)

URLs   == {"a", "b", "c"}
BadURL == "%zz"
NilURL == "<nil>"

\* url.Parse: the parsed URL, or an error
ParseURL(s) == IF s = BadURL THEN [ok |-> FALSE, url |-> NilURL]
                             ELSE [ok |-> TRUE, url |-> s]

\* the 64-bit hash frontier.NewItem stores in Item.Hash
HashOf(u) == CASE u = "a" -> 11 [] u = "b" -> 23 [] u = "c" -> 37 [] OTHER -> 5

\* frontier.NewItem(URL, parentItem, itemType, hop); parent is <<>> for nil
NewItem(u, parent, type, hop) ==
    [url |-> u, parent |-> parent, type |-> type, hop |-> hop,
     redirect |-> 0, hash |-> HashOf(u)]

\* new(frontier.Item): the zero value
ZeroItem == [url |-> NilURL, parent |-> <<>>, type |-> "", hop |-> 0,
             redirect |-> 0, hash |-> 0]

----------------------------------------------------------------------------
(* Frontier: the goroutine behind PushChan. *)

\* a send on a channel blocks while the channel is full
CanSend(ch) == Len(ch) < ChanCap

\* push: admit the item iff its hash is not marked, mark it, count it
FrontierReceive ==
    /\ ~crashed
    /\ PushChan # <<>>
    /\ LET item == Head(PushChan) IN
         /\ PushChan' = Tail(PushChan)
         /\ IF item.hash \in seen
              THEN UNCHANGED <<queue, QueueCount, seen>>
              ELSE /\ seen' = seen \cup {item.hash}
                   /\ queue' = Append(queue, item)
                   /\ QueueCount' = QueueCount + 1
    /\ UNCHANGED <<Finished, ActiveWorkers, configVars, producerVars,
                   consumerVars, captureVars>>

\* the process-wide Finished flag is set (orderly shutdown)
SetFinished ==
    /\ ~crashed
    /\ ~Finished
    /\ Finished' = TRUE
    /\ UNCHANGED <<ActiveWorkers, configVars, frontierVars, producerVars,
                   consumerVars, captureVars>>

----------------------------------------------------------------------------
(* queueOutlinks: one goroutine per captured page. *)

\* the item queueOutlinks builds for one outlink of a page
OutlinkItem(u, item) == NewItem(u, <<item>>, "seed", (item.hop + 1) % Uint8)

OutlinkTask(item, outlinks) == [item |-> item, outlinks |-> outlinks]

QueueOutlinksStep ==
    /\ ~crashed
    /\ \E t \in BagToSet(outlinkTasks) :
         LET newItem == OutlinkItem(Head(t.outlinks), t.item)
             rest    == Tail(t.outlinks)
             left    == outlinkTasks (-) SetToBag({t})
         IN  /\ outlinkTasks' = IF rest = <<>> THEN left
                                ELSE left (+) SetToBag({OutlinkTask(t.item, rest)})
             /\ IF UseKafka
                  THEN /\ CanSend(KafkaProducerChannel)
                       /\ KafkaProducerChannel' = Append(KafkaProducerChannel, newItem)
                       /\ UNCHANGED PushChan
                  ELSE /\ CanSend(PushChan)
                       /\ PushChan' = Append(PushChan, newItem)
                       /\ UNCHANGED KafkaProducerChannel
    /\ UNCHANGED <<Finished, ActiveWorkers, configVars, queue, QueueCount, seen,
                   ppc, pItem, produced, prodFailed, prodFallback, prodDropped,
                   consumerVars, wk, assetFetches, crashed>>

----------------------------------------------------------------------------
(* kafkaProducer *)

\* the kafkaMessage the producer marshals for an item
KafkaMessageOf(item) ==
    [u |-> item.url, hop |-> item.hop,
     parent_url |-> IF item.parent # <<>> THEN item.parent[1].url ELSE ""]

\* for item := range crawl.KafkaProducerChannel
ProducerRecv ==
    /\ ~crashed
    /\ ppc = "recv"
    /\ KafkaProducerChannel # <<>>
    /\ pItem' = <<Head(KafkaProducerChannel)>>
    /\ KafkaProducerChannel' = Tail(KafkaProducerChannel)
    /\ ppc' = "check"
    /\ UNCHANGED <<Finished, ActiveWorkers, configVars, frontierVars, produced,
                   prodFailed, prodFallback, prodDropped, consumerVars, captureVars>>

\* if crawl.Finished.Get() { break }
ProducerCheckFinished ==
    /\ ~crashed
    /\ ppc = "check"
    /\ IF Finished
         THEN /\ ppc' = "flush"
              /\ prodDropped' = Append(prodDropped, pItem[1])
              /\ pItem' = <<>>
         ELSE /\ ppc' = "produce"
              /\ UNCHANGED <<prodDropped, pItem>>
    /\ UNCHANGED <<Finished, ActiveWorkers, configVars, frontierVars,
                   KafkaProducerChannel, produced, prodFailed, prodFallback,
                   consumerVars, captureVars>>

ProduceNextPcNoFallback(err) == "recv"

\* where the loop body goes after p.Produce returned
ProduceNextPc(err) == IF err THEN "fallback" ELSE "recv"

\* json.Marshal and p.Produce; the broker decides whether Produce fails
ProducerProduce ==
    /\ ~crashed
    /\ ppc = "produce"
    /\ \E err \in BOOLEAN :
         /\ ppc' = ProduceNextPc(err)
         /\ IF err
              THEN /\ prodFailed' = Append(prodFailed, pItem[1])
                   /\ UNCHANGED produced
              ELSE /\ produced' = Append(produced, KafkaMessageOf(pItem[1]))
                   /\ UNCHANGED prodFailed
         /\ pItem' = IF ppc' = "fallback" THEN pItem ELSE <<>>
    /\ UNCHANGED <<Finished, ActiveWorkers, configVars, frontierVars,
                   KafkaProducerChannel, prodFallback, prodDropped,
                   consumerVars, captureVars>>

\* crawl.Frontier.PushChan <- item
ProducerFallback ==
    /\ ~crashed
    /\ ppc = "fallback"
    /\ CanSend(PushChan)
    /\ PushChan' = Append(PushChan, pItem[1])
    /\ prodFallback' = Append(prodFallback, pItem[1])
    /\ pItem' = <<>>
    /\ ppc' = "recv"
    /\ UNCHANGED <<Finished, ActiveWorkers, configVars, queue, QueueCount, seen,
                   KafkaProducerChannel, produced, prodFailed, prodDropped,
                   consumerVars, captureVars>>

\* p.Flush(15 * 1000), then the deferred p.Close()
ProducerFlush ==
    /\ ~crashed
    /\ ppc = "flush"
    /\ ppc' = "done"
    /\ UNCHANGED <<Finished, ActiveWorkers, configVars, frontierVars,
                   KafkaProducerChannel, pItem, produced, prodFailed, prodFallback,
                   prodDropped, consumerVars, captureVars>>

----------------------------------------------------------------------------
(* kafkaConsumer *)

\* What ReadMessage can deliver: msg.Value is either bytes json.Unmarshal
\* rejects, or a JSON object with u, hop and (possibly empty) parent_url.
Garbage == [valid |-> FALSE, u |-> "", hop |-> 0, parent_url |-> ""]
Msgs == {Garbage} \cup
        [valid : {TRUE}, u : {"c", BadURL}, hop : 0..MaxMsgHop,
         parent_url : {"", "b", BadURL}]

\* json.Unmarshal(msg.Value, &newKafkaMessage)
Unmarshal(m) == [ok |-> m.valid,
                 msg |-> [URL |-> m.u, HopsCount |-> m.hop % Uint8,
                          ParentURL |-> m.parent_url]]

ParentItemHopsUnguarded(hopsCount) == (hopsCount - 1) % Uint8

\* var newParentItemHops uint8; if HopsCount > 0 { newParentItemHops = HopsCount - 1 }
ParentItemHops(hopsCount) == IF hopsCount > 0 THEN (hopsCount - 1) % Uint8 ELSE 0

\* the item a reader task builds from a decoded message whose u parsed
ReaderItem(km, newURL) ==
    IF Len(km.ParentURL) > 0
      THEN LET p == ParseURL(km.ParentURL) IN
           IF ~p.ok
             THEN ZeroItem   \* newItem is still new(frontier.Item)
             ELSE NewItem(newURL,
                          <<NewItem(p.url, <<>>, "seed", ParentItemHops(km.HopsCount))>>,
                          "seed", km.HopsCount)
      ELSE NewItem(newURL, <<>>, "seed", km.HopsCount)

\* the reader task from the decode to the push: whether it pushes, and what
ReaderOutcome(m) ==
    LET d == Unmarshal(m)
        u == ParseURL(d.msg.URL)
    IN  IF ~d.ok THEN [push |-> FALSE, path |-> "decode", item |-> ZeroItem]
        ELSE IF ~u.ok THEN [push |-> FALSE, path |-> "parse", item |-> ZeroItem]
        ELSE [push |-> TRUE, path |-> "push", item |-> ReaderItem(d.msg, u.url)]

\* the reader tasks that have not returned
InFlight == readersStart + BagCardinality(readersPush)

\* the wg.Done() calls a reader task makes on the path it ends by: the
\* read error, the decode error, the parse error of u, or the push
SlotsReleased(path) == 1

PoolWaitReturnsAtOnce(slots) == TRUE

\* kafkaWorkerPool.Wait() returns when every slot was released
PoolWaitReturns(slots) == slots = 0

PoolAddReturnsAlways(slots) == TRUE

\* kafkaWorkerPool.Add() returns when fewer than 16 slots are held
PoolAddReturns(slots) == slots < KafkaPoolSize

AdmissionPausesAboveThreshold(active, workers) == active > workers - (workers \div 10)

AdmissionPausesAtNineTenths(active, workers) == active >= (workers * 9) \div 10

\* crawl.ActiveWorkers.Value() >= int64(crawl.Workers-(crawl.Workers/10))
AdmissionPauses(active, workers) == active >= workers - (workers \div 10)

\* if crawl.Finished.Get() { ... }
ConsumerCheckFinished ==
    /\ ~crashed
    /\ cpc = "top"
    /\ cpc' = IF Finished THEN "wait" ELSE "admit"
    /\ UNCHANGED <<Finished, ActiveWorkers, configVars, frontierVars, producerVars,
                   cObserved, readersStart, readersPush, poolSlots, kafkaClosed, feed, spawnsLeft,
                   consPushed, nAccepted, nConsPushed, readAfterClose, captureVars>>

\* kafkaWorkerPool.Wait(); kafkaClient.Close(); break
ConsumerWaitClose ==
    /\ ~crashed
    /\ cpc = "wait"
    /\ PoolWaitReturns(poolSlots)
    /\ kafkaClosed' = TRUE
    /\ cpc' = "done"
    /\ UNCHANGED <<Finished, ActiveWorkers, configVars, frontierVars, producerVars,
                   cObserved, readersStart, readersPush, poolSlots, feed, spawnsLeft,
                   consPushed, nAccepted, nConsPushed, readAfterClose, captureVars>>

\* the admission check
ConsumerAdmit ==
    /\ ~crashed
    /\ cpc = "admit"
    /\ cObserved' = ActiveWorkers
    /\ cpc' = IF AdmissionPauses(ActiveWorkers, Workers) THEN "sleep" ELSE "add"
    /\ UNCHANGED <<Finished, ActiveWorkers, configVars, frontierVars, producerVars,
                   readersStart, readersPush, poolSlots, kafkaClosed, feed, spawnsLeft,
                   consPushed, nAccepted, nConsPushed, readAfterClose, captureVars>>

\* time.Sleep(time.Second * 1); continue
ConsumerSleep ==
    /\ ~crashed
    /\ cpc = "sleep"
    /\ cpc' = "top"
    /\ UNCHANGED <<Finished, ActiveWorkers, configVars, frontierVars, producerVars,
                   cObserved, readersStart, readersPush, poolSlots, kafkaClosed, feed, spawnsLeft,
                   consPushed, nAccepted, nConsPushed, readAfterClose, captureVars>>

\* kafkaWorkerPool.Add(); go func(wg) {...}(&kafkaWorkerPool)
ConsumerSpawn ==
    /\ ~crashed
    /\ cpc = "add"
    /\ PoolAddReturns(poolSlots)
    /\ spawnsLeft > 0
    /\ spawnsLeft' = spawnsLeft - 1
    /\ poolSlots' = poolSlots + 1
    /\ readersStart' = readersStart + 1
    /\ cpc' = "top"
    /\ UNCHANGED <<Finished, ActiveWorkers, configVars, frontierVars, producerVars,
                   cObserved, readersPush, kafkaClosed, feed,
                   consPushed, nAccepted, nConsPushed, readAfterClose, captureVars>>

\* msg, err := kafkaClient.ReadMessage(15): the error path sleeps and releases
ReaderReadError ==
    /\ ~crashed
    /\ readersStart > 0
    /\ readersStart' = readersStart - 1
    /\ poolSlots' = poolSlots - SlotsReleased("read")
    /\ readAfterClose' = (readAfterClose \/ kafkaClosed)
    /\ UNCHANGED <<Finished, ActiveWorkers, configVars, frontierVars, producerVars,
                   cpc, cObserved, readersPush, kafkaClosed, feed, spawnsLeft,
                   consPushed, nAccepted, nConsPushed, captureVars>>

\* ReadMessage delivers a message; the task decodes it, parses its URLs and
\* builds the item, or logs and releases its slot
ReaderReadMessage ==
    /\ ~crashed
    /\ readersStart > 0
    /\ feed # <<>>
    /\ LET m == Head(feed)
           o == ReaderOutcome(m) IN
         /\ readersStart' = readersStart - 1
         /\ feed' = Tail(feed)
         /\ readAfterClose' = (readAfterClose \/ kafkaClosed)
         /\ nAccepted' = nAccepted + (IF m.valid /\ m.u # BadURL THEN 1 ELSE 0)
         /\ IF o.push
              THEN /\ readersPush' = readersPush (+)
                                        SetToBag({[msg |-> m, item |-> o.item]})
                   /\ UNCHANGED poolSlots
              ELSE /\ poolSlots' = poolSlots - SlotsReleased(o.path)
                   /\ UNCHANGED readersPush
    /\ UNCHANGED <<Finished, ActiveWorkers, configVars, frontierVars, producerVars,
                   cpc, cObserved, kafkaClosed, spawnsLeft, consPushed, nConsPushed,
                   captureVars>>

\* crawl.Frontier.PushChan <- newItem; wg.Done()
ReaderPush ==
    /\ ~crashed
    /\ CanSend(PushChan)
    /\ \E r \in BagToSet(readersPush) :
         /\ PushChan' = Append(PushChan, r.item)
         /\ readersPush' = readersPush (-) SetToBag({r})
         /\ poolSlots' = poolSlots - SlotsReleased("push")
         /\ consPushed' = consPushed \cup {r}
         /\ nConsPushed' = nConsPushed + 1
    /\ UNCHANGED <<Finished, ActiveWorkers, configVars, queue, QueueCount, seen,
                   producerVars, cpc, cObserved, readersStart, kafkaClosed, feed, spawnsLeft,
                   nAccepted, readAfterClose, captureVars>>

\* the worker pool seen from the consumer: a worker enters Capture ...
WorkerBegins ==
    /\ ~crashed
    /\ ActiveWorkers < Workers
    /\ ActiveWorkers' = ActiveWorkers + 1
    /\ UNCHANGED <<Finished, configVars, frontierVars, producerVars, consumerVars,
                   captureVars>>

\* ... and returns from it
WorkerEnds ==
    /\ ~crashed
    /\ ActiveWorkers > 0
    /\ ActiveWorkers' = ActiveWorkers - 1
    /\ UNCHANGED <<Finished, configVars, frontierVars, producerVars, consumerVars,
                   captureVars>>

----------------------------------------------------------------------------
(* The capture path: Capture, captureAsset and executeGET, run by the crawl *)
(* workers.  wk[w] holds worker w's position and the locals of its calls.  *)

\* what the server (or the transport) answers to one request
Locations == URLs \cup {BadURL}
Answers ==
    {[terr |-> TRUE, status |-> 0, loc |-> "", text |-> FALSE]} \cup
    [terr : {FALSE}, status : {200}, loc : {""}, text : BOOLEAN] \cup
    [terr : {FALSE}, status : {301}, loc : Locations, text : {TRUE}]

\* isRedirection(resp.StatusCode)
IsRedirection(status) == status >= 300 /\ status <= 399

NoResp == [terr |-> FALSE, status |-> 0, loc |-> "", text |-> FALSE, reqURL |-> NilURL]
NoReq  == [url |-> NilURL, UserAgent |-> "", AcceptEncoding |-> "", Referer |-> "",
           cookies |-> FALSE]

\* http.NewRequest("GET", u, nil): no header is set
NewRequest(u) == [NoReq EXCEPT !.url = u]

\* item.URL.Host
HostOf(u) == <<"host", u>>

ConfiguredUserAgent == "Zeno"

IdleWorker ==
    [pc |-> "idle",
     item |-> ZeroItem,     \* Capture's item
     cresp |-> NoResp,      \* Capture's resp
     assets |-> <<>>,       \* the assets the loop has not reached yet
     asset |-> ZeroItem,    \* captureAsset's item
     gItem |-> ZeroItem,    \* executeGET's parentItem (innermost call)
     req |-> NoReq,         \* executeGET's req (innermost call)
     oldReq |-> NoReq,      \* the req of the call that recursed last
     sentReq |-> NoReq,     \* that req as it was when it was sent
     resp |-> NoResp,       \* executeGET's result
     err |-> FALSE,
     nreq |-> 0,            \* requests issued since the top-level call
     qdelta |-> 0,          \* what this Capture added to QueueCount so far
     ev |-> <<>>,           \* what this Capture did itself, in order
     acalls |-> 0,          \* calls of captureAsset this Capture made
     adone |-> 0,           \* calls of captureAsset that returned
     aev |-> <<>>]          \* what the last call of captureAsset did, in order

\* the entries of ev and aev: executeGET returned, a success record was
\* emitted, go c.queueOutlinks was started
NoRecord == [url |-> NilURL, status_code |-> 0, hop |-> 0, type |-> ""]
FetchEvent(ok) == [e |-> "fetch", ok |-> ok, rec |-> NoRecord]
LogEvent(rec)  == [e |-> "log", ok |-> TRUE, rec |-> rec]
OutlinksEvent  == [e |-> "outlinks", ok |-> TRUE, rec |-> NoRecord]

Set(w, rec) == wk' = [wk EXCEPT ![w] = rec]

\* the worker pool: pop an item, count the worker active, call Capture
WorkerPop ==
  \E w \in DOMAIN wk :
    /\ ~crashed
    /\ wk[w].pc = "idle"
    /\ queue # <<>>
    /\ queue' = Tail(queue)
    /\ QueueCount' = QueueCount - 1
    /\ ActiveWorkers' = ActiveWorkers + 1
    /\ Set(w, [IdleWorker EXCEPT !.pc = "start", !.item = Head(queue)])
    /\ UNCHANGED <<Finished, configVars, PushChan, seen, producerVars, consumerVars,
                   outlinkTasks, assetFetches, crashed>>

\* the Referer Capture sets
CaptureReferer(item) ==
    IF item.hop > 0 /\ Len(item.parent[1].url) > 0
      THEN item.parent[1].url
      ELSE HostOf(item.url)

\* item.URL.String() on a nil URL, item.ParentItem.URL on a nil parent
CapturePanics(item) ==
    \/ item.url = NilURL
    \/ item.hop > 0 /\ item.parent = <<>>

\* Capture up to the call of executeGET
CaptureStart ==
  \E w \in DOMAIN wk :
    /\ ~crashed
    /\ wk[w].pc = "start"
    /\ LET item == wk[w].item IN
       IF CapturePanics(item)
         THEN /\ crashed' = TRUE
              /\ Set(w, [wk[w] EXCEPT !.pc = "panic"])
         ELSE /\ Set(w, [wk[w] EXCEPT
                           !.pc = "get", !.gItem = item, !.nreq = 0,
                           !.req = [NewRequest(item.url) EXCEPT
                                      !.Referer = CaptureReferer(item)]])
              /\ UNCHANGED crashed
    /\ UNCHANGED <<Finished, ActiveWorkers, configVars, frontierVars, producerVars,
                   consumerVars, outlinkTasks, assetFetches>>

StopsRedirectIgnoringSelf(loc, reqURL, redirect) == redirect >= MaxRedirect

StopsRedirectIgnoringLimit(loc, reqURL, redirect) == loc = reqURL

\* resp.Header.Get("location") == req.URL.String() || parentItem.Redirect >= c.MaxRedirect
StopsRedirect(loc, reqURL, redirect) == loc = reqURL \/ redirect >= MaxRedirect

RedirectItemAsSeed(URL, parentItem) ==
    [NewItem(URL, <<parentItem>>, "seed", parentItem.hop)
       EXCEPT !.redirect = parentItem.redirect + 1]

\* newItem = frontier.NewItem(URL, parentItem, parentItem.Type, parentItem.Hop)
\* newItem.Redirect = parentItem.Redirect + 1
RedirectItem(URL, parentItem) ==
    [NewItem(URL, <<parentItem>>, parentItem.type, parentItem.hop)
       EXCEPT !.redirect = parentItem.redirect + 1]

\* One call of executeGET up to its return or its recursive call.  The
\* calls that recursed return what the innermost call returns.
ExecuteGET ==
  \E w \in DOMAIN wk :
    /\ ~crashed
    /\ wk[w].pc \in {"get", "aGet"}
    /\ \E a \in Answers :
         LET me   == wk[w]
             resp == [terr |-> a.terr, status |-> a.status, loc |-> a.loc,
                      text |-> a.text, reqURL |-> me.req.url]
             back == IF me.pc = "get" THEN "fetched" ELSE "aFetched"
             ret(e) == IF me.pc = "get"
                         THEN [me EXCEPT !.pc = back, !.resp = resp, !.err = e,
                                         !.nreq = me.nreq + 1,
                                         !.ev = Append(me.ev, FetchEvent(~e))]
                         ELSE [me EXCEPT !.pc = back, !.resp = resp, !.err = e,
                                         !.nreq = me.nreq + 1,
                                         !.aev = Append(me.aev, FetchEvent(~e))]
             URL  == ParseURL(a.loc)
         IN
         /\ assetFetches' = IF me.pc = "aGet" /\ me.gItem = me.asset
                               THEN assetFetches (+) SetToBag({me.asset.hash})
                               ELSE assetFetches
         /\  IF a.terr THEN Set(w, ret(TRUE))
             ELSE IF ~IsRedirection(a.status) THEN Set(w, ret(FALSE))
             ELSE IF StopsRedirect(a.loc, me.req.url, me.gItem.redirect)
               THEN Set(w, ret(FALSE))
             ELSE IF ~URL.ok THEN Set(w, ret(TRUE))
             ELSE LET newItem == RedirectItem(URL.url, me.gItem) IN
                  Set(w, [me EXCEPT
                            !.nreq = me.nreq + 1,
                            !.gItem = newItem,
                            !.req = NewRequest(URL.url),
                            !.sentReq = me.req,
                            !.oldReq = [me.req EXCEPT
                                          !.UserAgent = ConfiguredUserAgent,
                                          !.AcceptEncoding = "*/*",
                                          !.Referer = newItem.parent[1].url]])
    /\ UNCHANGED <<Finished, ActiveWorkers, configVars, frontierVars, producerVars,
                   consumerVars, outlinkTasks, crashed>>

LoggedItemRedirectTarget(item, innermost) == innermost

\* the item Capture and captureAsset hand to logCrawlSuccess: their own
\* item, not the item of the redirect executeGET followed last
LoggedItem(item, innermost) == item

LogsSuccessAlways(err) == TRUE

\* whether the caller of executeGET goes on to logCrawlSuccess
LogsSuccess(err) == ~err

\* c.logCrawlSuccess(executionStart, resp.StatusCode, item): the record
SuccessRecord(statusCode, item) ==
    [url |-> item.url, status_code |-> statusCode, hop |-> item.hop,
     type |-> item.type]

\* Capture after executeGET returned: the error return, or the success log
CaptureLog ==
  \E w \in DOMAIN wk :
    /\ ~crashed
    /\ wk[w].pc = "fetched"
    /\ LET me == wk[w] IN
       IF LogsSuccess(me.err)
         THEN Set(w, [me EXCEPT !.pc = "scrape", !.cresp = me.resp,
                        !.ev = Append(me.ev,
                                      LogEvent(SuccessRecord(me.resp.status,
                                                 LoggedItem(me.item, me.gItem))))])
         ELSE Set(w, [me EXCEPT !.pc = "done"])
    /\ UNCHANGED <<Finished, ActiveWorkers, configVars, frontierVars, producerVars,
                   consumerVars, outlinkTasks, assetFetches, crashed>>

ExtractsOutlinksUpToMaxHops(hop) == hop <= MaxHops

\* if item.Hop < c.MaxHops
ExtractsOutlinks(hop) == hop < MaxHops

\* what extractOutlinks can return for a page
OutlinkLists == {SubSeq(<<"b", "a", "b", "a">>, 1, n) : n \in 0..MaxOutlinks}

\* Capture from the Content-Type test to go c.queueOutlinks(outlinks, item)
CaptureOutlinks ==
  \E w \in DOMAIN wk :
    /\ ~crashed
    /\ wk[w].pc = "scrape"
    /\ LET me == wk[w] IN
       \/ \* not text/*, or goquery cannot read the document: return
          /\ Set(w, [me EXCEPT !.pc = "done"])
          /\ UNCHANGED outlinkTasks
       \/ /\ me.cresp.text
          /\ IF ExtractsOutlinks(me.item.hop)
               THEN \/ \* extractOutlinks returns an error
                       /\ Set(w, [me EXCEPT !.pc = "done"])
                       /\ UNCHANGED outlinkTasks
                    \/ \E outlinks \in OutlinkLists :
                         /\ Set(w, [me EXCEPT !.pc = "assets",
                                      !.ev = Append(me.ev, OutlinksEvent)])
                         /\ outlinkTasks' =
                              IF outlinks = <<>> THEN outlinkTasks
                              ELSE outlinkTasks (+)
                                     SetToBag({OutlinkTask(me.item, outlinks)})
               ELSE /\ Set(w, [me EXCEPT !.pc = "assets"])
                    /\ UNCHANGED outlinkTasks
    /\ UNCHANGED <<Finished, ActiveWorkers, configVars, frontierVars, producerVars,
                   consumerVars, assetFetches, crashed>>

\* what c.extractAssets can return for a page
AssetLists == {SubSeq(<<"c", "a", "c", "a">>, 1, n) : n \in 0..MaxAssets}

\* c.extractAssets and c.Frontier.QueueCount.Incr(int64(len(assets)))
CaptureAssets ==
  \E w \in DOMAIN wk :
    /\ ~crashed
    /\ wk[w].pc = "assets"
    /\ LET me == wk[w] IN
       \/ \* extractAssets returns an error
          /\ Set(w, [me EXCEPT !.pc = "done"])
          /\ UNCHANGED QueueCount
       \/ \E assets \in AssetLists :
            /\ Set(w, [me EXCEPT !.pc = "loop", !.assets = assets,
                         !.qdelta = me.qdelta + Len(assets)])
            /\ QueueCount' = QueueCount + Len(assets)
    /\ UNCHANGED <<Finished, ActiveWorkers, configVars, PushChan, queue, seen,
                   producerVars, consumerVars, outlinkTasks, assetFetches, crashed>>

LoopDecrementAfterSelfTest(isSelf) == IF isSelf THEN 0 ELSE 1

\* c.Frontier.QueueCount.Incr(-1), first statement of the loop body
LoopDecrement(isSelf) == 1

\* one turn of the asset loop up to the call of captureAsset; the end of
\* the loop is the end of Capture
AssetLoop ==
  \E w \in DOMAIN wk :
    /\ ~crashed
    /\ wk[w].pc = "loop"
    /\ LET me == wk[w] IN
       IF me.assets = <<>>
         THEN /\ Set(w, [me EXCEPT !.pc = "done"])
              /\ UNCHANGED QueueCount
         ELSE LET asset  == Head(me.assets)
                  isSelf == me.item.url = asset
                  d      == LoopDecrement(isSelf)
              IN  /\ QueueCount' = QueueCount - d
                  /\ IF isSelf
                       THEN Set(w, [me EXCEPT !.assets = Tail(me.assets),
                                      !.qdelta = me.qdelta - d])
                       ELSE Set(w, [me EXCEPT !.assets = Tail(me.assets),
                                      !.qdelta = me.qdelta - d,
                                      !.pc = "aSeen",
                                      !.asset = NewItem(asset, <<me.item>>, "asset",
                                                        me.item.hop),
                                      !.acalls = me.acalls + 1,
                                      !.aev = <<>>])
    /\ UNCHANGED <<Finished, ActiveWorkers, configVars, PushChan, queue, seen,
                   producerVars, consumerVars, outlinkTasks, assetFetches, crashed>>

\* the request captureAsset prepares
AssetRequest(item) ==
    [NewRequest(item.url) EXCEPT !.Referer = item.parent[1].url, !.cookies = TRUE]

\* captureAsset: found, _ := c.Frontier.Seencheck.IsSeen(hash)
AssetIsSeen ==
  \E w \in DOMAIN wk :
    /\ ~crashed
    /\ wk[w].pc = "aSeen"
    /\ LET me == wk[w] IN
       IF Seencheck
         THEN IF me.asset.hash \in seen
                THEN Set(w, [me EXCEPT !.pc = "loop", !.asset = ZeroItem,
                               !.adone = me.adone + 1])
                ELSE Set(w, [me EXCEPT !.pc = "aMark"])
         ELSE Set(w, [me EXCEPT !.pc = "aGet", !.gItem = me.asset, !.nreq = 0,
                        !.req = AssetRequest(me.asset), !.oldReq = NoReq, !.sentReq = NoReq])
    /\ UNCHANGED <<Finished, ActiveWorkers, configVars, frontierVars, producerVars,
                   consumerVars, outlinkTasks, assetFetches, crashed>>

\* captureAsset: c.Frontier.Seencheck.Seen(hash, item.Type), then the request
AssetMark ==
  \E w \in DOMAIN wk :
    /\ ~crashed
    /\ wk[w].pc = "aMark"
    /\ seen' = seen \cup {wk[w].asset.hash}
    /\ Set(w, [wk[w] EXCEPT !.pc = "aGet", !.gItem = wk[w].asset, !.nreq = 0,
                 !.req = AssetRequest(wk[w].asset), !.oldReq = NoReq, !.sentReq = NoReq])
    /\ UNCHANGED <<Finished, ActiveWorkers, configVars, PushChan, queue, QueueCount,
                   producerVars, consumerVars, outlinkTasks, assetFetches, crashed>>

\* captureAsset after executeGET returned, and its return to the loop
AssetLog ==
  \E w \in DOMAIN wk :
    /\ ~crashed
    /\ wk[w].pc = "aFetched"
    /\ LET me == wk[w] IN
       IF LogsSuccess(me.err)
         THEN Set(w, [me EXCEPT !.pc = "loop", !.asset = ZeroItem,
                        !.gItem = ZeroItem, !.req = NoReq, !.oldReq = NoReq, !.sentReq = NoReq,
                        !.resp = NoResp, !.err = FALSE, !.nreq = 0,
                        !.adone = me.adone + 1,
                        !.aev = Append(me.aev,
                                       LogEvent(SuccessRecord(me.resp.status,
                                                  LoggedItem(me.asset, me.gItem))))])
         ELSE Set(w, [me EXCEPT !.pc = "loop", !.asset = ZeroItem,
                        !.gItem = ZeroItem, !.req = NoReq, !.oldReq = NoReq, !.sentReq = NoReq,
                        !.resp = NoResp, !.err = FALSE, !.nreq = 0,
                        !.adone = me.adone + 1])
    /\ UNCHANGED <<Finished, ActiveWorkers, configVars, frontierVars, producerVars,
                   consumerVars, outlinkTasks, assetFetches, crashed>>

\* Capture returned: the worker pool counts the worker idle again
WorkerDone ==
  \E w \in DOMAIN wk :
    /\ ~crashed
    /\ wk[w].pc = "done"
    /\ ActiveWorkers' = ActiveWorkers - 1
    /\ Set(w, IdleWorker)
    /\ UNCHANGED <<Finished, configVars, frontierVars, producerVars, consumerVars,
                   outlinkTasks, assetFetches, crashed>>

----------------------------------------------------------------------------
(* Initial states and specifications *)

InitFrontier ==
    /\ PushChan = <<>> /\ queue = <<>> /\ QueueCount = 0 /\ seen = {}

InitProducerIdle ==
    /\ KafkaProducerChannel = <<>> /\ ppc = "recv" /\ pItem = <<>>
    /\ produced = <<>> /\ prodFailed = <<>> /\ prodFallback = <<>>
    /\ prodDropped = <<>>

InitConsumerIdle ==
    /\ cpc = "top" /\ cObserved = 0 /\ readersStart = 0 /\ poolSlots = 0
    /\ readersPush = EmptyBag /\ kafkaClosed = FALSE /\ feed = <<>>
    /\ spawnsLeft = 0
    /\ consPushed = {} /\ nAccepted = 0 /\ nConsPushed = 0
    /\ readAfterClose = FALSE

InitCaptureIdle ==
    /\ wk = [w \in {} |-> IdleWorker] /\ assetFetches = EmptyBag /\ crashed = FALSE

\* The producer with the outlinks of captured pages arriving on its channel.
InitProducer ==
    /\ Finished = FALSE /\ Workers = 1 /\ ActiveWorkers = 0
    /\ MaxHops = 2 /\ MaxRedirect = 0 /\ Seencheck = FALSE /\ UseKafka = TRUE
    /\ InitFrontier /\ InitProducerIdle /\ InitConsumerIdle /\ InitCaptureIdle
    /\ \E hop \in 0..1, par \in {<<>>, <<NewItem("c", <<>>, "seed", 0)>>},
          links \in UNION {[1..n -> {"a", "b"}] : n \in 1..(MaxOutlinks + 1)} :
         outlinkTasks = SetToBag({OutlinkTask(NewItem("c", par, "seed", hop), links)})

NextProducer ==
    \/ QueueOutlinksStep
    \/ ProducerRecv
    \/ ProducerCheckFinished
    \/ ProducerProduce
    \/ ProducerFallback
    \/ ProducerFlush
    \/ FrontierReceive
    \/ SetFinished

SpecProducer == InitProducer /\ [][NextProducer]_vars

\* The same under fair scheduling: a goroutine that can take a step takes
\* it in the end.  Nothing obliges the crawl to set the Finished flag.
FairProducer ==
    /\ WF_vars(QueueOutlinksStep)
    /\ WF_vars(ProducerRecv)
    /\ WF_vars(ProducerCheckFinished)
    /\ WF_vars(ProducerProduce)
    /\ WF_vars(ProducerFallback)
    /\ WF_vars(ProducerFlush)
    /\ WF_vars(FrontierReceive)

SpecProducerFair == InitProducer /\ [][NextProducer]_vars /\ FairProducer

\* The consumer loop beside a pool of Workers crawl workers: admission.
InitAdmission ==
    /\ Finished = FALSE /\ Workers \in 1..MaxWorkers /\ ActiveWorkers = 0
    /\ MaxHops = 2 /\ MaxRedirect = 0 /\ Seencheck = FALSE /\ UseKafka = TRUE
    /\ InitFrontier /\ InitProducerIdle /\ InitCaptureIdle
    /\ cpc = "top" /\ cObserved = 0 /\ readersStart = 0 /\ poolSlots = 0
    /\ readersPush = EmptyBag /\ kafkaClosed = FALSE
    /\ feed = <<[valid |-> TRUE, u |-> "c", hop |-> 1, parent_url |-> "b"]>>
    /\ spawnsLeft = MaxSpawns
    /\ consPushed = {} /\ nAccepted = 0 /\ nConsPushed = 0
    /\ readAfterClose = FALSE
    /\ outlinkTasks = EmptyBag

\* The reader tasks on every feed: ingestion.
InitIngest ==
    /\ Finished = FALSE /\ Workers = 1 /\ ActiveWorkers = 0
    /\ MaxHops = 2 /\ MaxRedirect = 0 /\ Seencheck = FALSE /\ UseKafka = TRUE
    /\ InitFrontier /\ InitProducerIdle /\ InitCaptureIdle
    /\ cpc = "top" /\ cObserved = 0 /\ readersStart = 0 /\ poolSlots = 0
    /\ readersPush = EmptyBag /\ kafkaClosed = FALSE
    /\ feed \in UNION {[1..n -> Msgs] : n \in 1..MaxMsgs}
    /\ spawnsLeft = MaxSpawns
    /\ consPushed = {} /\ nAccepted = 0 /\ nConsPushed = 0
    /\ readAfterClose = FALSE
    /\ outlinkTasks = EmptyBag

NextConsumer ==
    \/ ConsumerCheckFinished
    \/ ConsumerWaitClose
    \/ ConsumerAdmit
    \/ ConsumerSleep
    \/ ConsumerSpawn
    \/ ReaderReadError
    \/ ReaderReadMessage
    \/ ReaderPush
    \/ WorkerBegins
    \/ WorkerEnds
    \/ FrontierReceive
    \/ SetFinished

SpecAdmission == InitAdmission /\ [][NextConsumer]_vars

SpecIngest == InitIngest /\ [][NextConsumer]_vars

\* The consumer spawning more reader tasks than its pool has slots: one
\* message of each kind (undecodable, u unparseable, accepted) in the feed.
PoolMsgs ==
    {Garbage,
     [valid |-> TRUE, u |-> BadURL, hop |-> 0, parent_url |-> ""],
     [valid |-> TRUE, u |-> "c", hop |-> 0, parent_url |-> ""]}

InitPool ==
    /\ Finished = FALSE /\ Workers = 1 /\ ActiveWorkers = 0
    /\ MaxHops = 2 /\ MaxRedirect = 0 /\ Seencheck = FALSE /\ UseKafka = TRUE
    /\ InitFrontier /\ InitProducerIdle /\ InitCaptureIdle
    /\ cpc = "top" /\ cObserved = 0 /\ readersStart = 0 /\ poolSlots = 0
    /\ readersPush = EmptyBag /\ kafkaClosed = FALSE
    /\ feed \in UNION {[1..n -> PoolMsgs] : n \in 1..MaxMsgs}
    /\ spawnsLeft = KafkaPoolSize + MaxSpawns
    /\ consPushed = {} /\ nAccepted = 0 /\ nConsPushed = 0
    /\ readAfterClose = FALSE
    /\ outlinkTasks = EmptyBag

SpecPool == InitPool /\ [][NextConsumer]_vars

\* the items a seed loader or the Kafka consumer can have pushed for URL u
SeedItems(u) ==
    {NewItem(u, par, "seed", hop) :
       hop \in 0..(MaxHopsBound + 1),
       par \in {<<>>, <<NewItem("c", <<>>, "seed", 0)>>}}

\* One worker capturing what the frontier holds, under every configuration.
InitCapture ==
    /\ Finished = FALSE /\ Workers = 1 /\ ActiveWorkers = 0
    /\ MaxHops \in 0..MaxHopsBound /\ MaxRedirect \in 0..MaxRedirBound
    /\ Seencheck \in BOOLEAN /\ UseKafka = FALSE
    /\ InitProducerIdle /\ InitConsumerIdle
    /\ outlinkTasks = EmptyBag /\ assetFetches = EmptyBag /\ crashed = FALSE
    /\ wk = [w \in {"w1"} |-> IdleWorker]
    /\ PushChan = <<>>
    /\ \E it \in SeedItems("a") :
         /\ queue = <<it>> /\ QueueCount = 1 /\ seen = {it.hash}

NextCapture ==
    \/ WorkerPop
    \/ CaptureStart
    \/ ExecuteGET
    \/ CaptureLog
    \/ CaptureOutlinks
    \/ CaptureAssets
    \/ AssetLoop
    \/ AssetIsSeen
    \/ AssetMark
    \/ AssetLog
    \/ WorkerDone
    \/ QueueOutlinksStep
    \/ FrontierReceive

SpecCapture == InitCapture /\ [][NextCapture]_vars

\* Two workers capturing concurrently: a page and the page it links to.
InitConcurrent ==
    /\ Finished = FALSE /\ Workers = 2 /\ ActiveWorkers = 0
    /\ MaxHops = 1 /\ MaxRedirect = 0
    /\ Seencheck \in BOOLEAN /\ UseKafka = FALSE
    /\ InitProducerIdle /\ InitConsumerIdle
    /\ outlinkTasks = EmptyBag /\ assetFetches = EmptyBag /\ crashed = FALSE
    /\ wk = [w \in {"w1", "w2"} |-> IdleWorker]
    /\ PushChan = <<>>
    /\ queue = <<NewItem("a", <<>>, "seed", 0)>> /\ QueueCount = 1
    /\ seen = {HashOf("a")}

SpecConcurrent == InitConcurrent /\ [][NextCapture]_vars

\* The Kafka consumer feeding the frontier and one crawl worker behind it.
InitPipeline ==
    /\ Finished = FALSE /\ Workers = 1 /\ ActiveWorkers = 0
    /\ MaxHops \in 0..MaxHopsBound /\ MaxRedirect = 0
    /\ Seencheck = TRUE /\ UseKafka = FALSE
    /\ InitFrontier /\ InitProducerIdle
    /\ cpc = "top" /\ cObserved = 0 /\ readersStart = 0 /\ poolSlots = 0
    /\ readersPush = EmptyBag /\ kafkaClosed = FALSE
    /\ feed \in UNION {[1..n -> Msgs] : n \in 1..MaxMsgs}
    /\ spawnsLeft = MaxSpawns
    /\ consPushed = {} /\ nAccepted = 0 /\ nConsPushed = 0
    /\ readAfterClose = FALSE
    /\ outlinkTasks = EmptyBag /\ assetFetches = EmptyBag /\ crashed = FALSE
    /\ wk = [w \in {"w1"} |-> IdleWorker]

NextPipeline ==
    \/ ConsumerCheckFinished
    \/ ConsumerWaitClose
    \/ ConsumerAdmit
    \/ ConsumerSleep
    \/ ConsumerSpawn
    \/ ReaderReadError
    \/ ReaderReadMessage
    \/ ReaderPush
    \/ FrontierReceive
    \/ SetFinished
    \/ WorkerPop
    \/ CaptureStart
    \/ ExecuteGET
    \/ CaptureLog
    \/ CaptureOutlinks
    \/ CaptureAssets
    \/ AssetLoop
    \/ AssetIsSeen
    \/ AssetMark
    \/ AssetLog
    \/ WorkerDone
    \/ QueueOutlinksStep

SpecPipeline == InitPipeline /\ [][NextPipeline]_vars

----------------------------------------------------------------------------
(* The properties *)

\* C1. Kafka fallback: whenever the producer is about to take the next item
\* (or has left its loop), every item whose Produce call returned an error
\* has been sent on the Frontier's push channel, in the order of the
\* failures; while it is blocked on the send, only the item at hand is owed.
C1_KafkaFallback ==
    /\ ppc # "fallback" => prodFallback = prodFailed
    /\ ppc = "fallback" => /\ pItem # <<>>
                           /\ prodFailed = Append(prodFallback, pItem[1])

\* a Produce call failed and its item was sent on PushChan
C1_Witness ==
    /\ ppc = "recv"
    /\ prodFailed # <<>>
    /\ prodFallback = prodFailed

\* the admission threshold of the consumer
PauseThreshold == Workers - (Workers \div 10)

\* C2 (as claimed). No ReadMessage is started while
\* ActiveWorkers >= Workers*9/10.
C2_NoReadAtNineTenths ==
    [][readersStart' < readersStart => ActiveWorkers < (Workers * 9) \div 10]_vars

\* C2 (amended). The consumer loop goes on to spawn a reader task only when
\* its admission check read ActiveWorkers < Workers - Workers/10, and pauses
\* exactly when it read a larger value; a task is spawned from nowhere but
\* the position after a passed check, and after a pause the next step of the
\* loop is the top of the loop again.
C2_Admission ==
    [][/\ (cpc # "add" /\ cpc' = "add")
            => cpc = "admit" /\ ActiveWorkers < PauseThreshold
       /\ (cpc # "sleep" /\ cpc' = "sleep")
            => cpc = "admit" /\ ActiveWorkers >= PauseThreshold
       /\ readersStart' > readersStart
            => cpc = "add" /\ cObserved < PauseThreshold
       /\ cpc = "sleep"
            => readersStart' <= readersStart /\ cpc' \in {"sleep", "top"}]_vars

\* with ten workers or more, the consumer paused although a worker was idle
C2_Witness ==
    /\ cpc = "sleep"
    /\ Workers >= 10
    /\ cObserved = Workers - 1
    /\ readersStart > 0

\* the item the design expects for a message with a parent
ExpectedChild(m) ==
    [url |-> m.u, type |-> "seed", hop |-> m.hop, redirect |-> 0,
     hash |-> HashOf(m.u),
     parent |-> <<[url |-> m.parent_url, type |-> "seed", parent |-> <<>>,
                   hop |-> IF m.hop = 0 THEN 0 ELSE m.hop - 1,
                   redirect |-> 0, hash |-> HashOf(m.parent_url)]>>]

\* C8. Kafka ingest with parent: every message that decodes and whose u
\* parses gets exactly one push; with a parent_url that parses the pushed
\* item is the expected child of the expected parent (parent hop
\* max(0, hop - 1)); with an empty parent_url it has no parent.
C8_IngestWithParent ==
    /\ nAccepted = nConsPushed + BagCardinality(readersPush)
    /\ \A r \in consPushed \cup BagToSet(readersPush) :
         /\ r.msg.valid /\ r.msg.u # BadURL
         /\ (r.msg.parent_url # "" /\ r.msg.parent_url # BadURL)
              => r.item = ExpectedChild(r.msg)
         /\ r.msg.parent_url = ""
              => /\ r.item.parent = <<>>
                 /\ r.item.url = r.msg.u
                 /\ r.item.type = "seed"
                 /\ r.item.hop = r.msg.hop

\* a message with hop 0 and a parent was pushed
C8_Witness ==
    \E r \in consPushed :
      /\ r.msg.hop = 0 /\ r.msg.parent_url = "b"
      /\ r.item.parent # <<>>
      /\ r.item.parent[1].hop = 0

\* the items of a redirect chain, innermost first
RECURSIVE Chain(_)
Chain(item) ==
    IF item.redirect = 0 \/ item.parent = <<>> THEN <<item>>
    ELSE <<item>> \o Chain(item.parent[1])

InGet(me) == me.pc \in {"get", "fetched", "aGet", "aFetched"}

\* C3. Redirect bound: a top-level executeGET call for an item with
\* redirect = 0 issues at most MaxRedirect + 1 requests, whatever the server
\* answers, and every item it creates has redirect <= MaxRedirect.
C3_RedirectBound ==
    \A w \in DOMAIN wk :
      LET me == wk[w] IN
      /\ me.nreq <= MaxRedirect + 1
      /\ InGet(me) =>
           /\ \A i \in 1..Len(Chain(me.gItem)) :
                Chain(me.gItem)[i].redirect <= MaxRedirect
           /\ Chain(me.gItem)[Len(Chain(me.gItem))].redirect = 0
           /\ me.nreq <= me.gItem.redirect + 1

\* a chain of redirections to other URLs was cut by the bound
C3_Witness ==
    \E w \in DOMAIN wk :
      /\ wk[w].pc = "fetched"
      /\ MaxRedirect >= 1
      /\ wk[w].nreq = MaxRedirect + 1
      /\ wk[w].gItem.redirect = MaxRedirect
      /\ IsRedirection(wk[w].resp.status)
      /\ wk[w].resp.loc \in URLs \ {wk[w].resp.reqURL}
      /\ ~wk[w].err

HasEvent(ev, tag) == \E i \in 1..Len(ev) : ev[i].e = tag

\* C4. Hop bound: the outlink enqueue is started only for an item with
\* hop < MaxHops, so every queueOutlinks goroutine and every outlink item
\* on its way to the frontier stems from such an item; a capture whose item
\* has hop >= MaxHops starts none, also when its assets are captured.
C4_HopBound ==
    /\ \A w \in DOMAIN wk :
         HasEvent(wk[w].ev, "outlinks") => wk[w].item.hop < MaxHops
    /\ \A t \in BagToSet(outlinkTasks) : t.item.hop < MaxHops
    /\ \A i \in 1..Len(PushChan) :
         /\ PushChan[i].parent # <<>>
         /\ PushChan[i].parent[1].hop < MaxHops
         /\ PushChan[i].hop <= MaxHops

\* an item at hop = MaxHops was fetched and an asset of it captured
C4_Witness ==
    \E w \in DOMAIN wk :
      /\ wk[w].item.hop = MaxHops
      /\ wk[w].adone > 0
      /\ Len(wk[w].aev) = 2
      /\ ~HasEvent(wk[w].ev, "outlinks")

\* C5. Self-redirect safety: executeGET never follows a redirection to the
\* URL it has just requested; it returns that response, without an error
\* and without a further request (one request for a seed).
C5_SelfRedirect ==
    \A w \in DOMAIN wk :
      LET me == wk[w] IN
      InGet(me) =>
        /\ \A i \in 1..Len(Chain(me.gItem)) :
             LET it == Chain(me.gItem)[i] IN
             it.redirect > 0 => it.url # it.parent[1].url
        /\ (me.pc \in {"fetched", "aFetched"} /\ IsRedirection(me.resp.status)
              /\ me.resp.loc = me.resp.reqURL)
             => ~me.err /\ me.nreq = me.gItem.redirect + 1

\* a seed answered with its own URL as Location, below the redirect bound
C5_Witness ==
    \E w \in DOMAIN wk :
      /\ wk[w].pc = "fetched"
      /\ MaxRedirect >= 1
      /\ wk[w].gItem = wk[w].item
      /\ IsRedirection(wk[w].resp.status)
      /\ wk[w].resp.loc = wk[w].item.url
      /\ wk[w].nreq = 1

AssetPcs == {"aSeen", "aMark", "aGet", "aFetched"}

\* C6. Asset non-recursion: the items captureAsset and the redirections it
\* follows work on are all of type asset, and no step of captureAsset sends
\* on the Frontier's push channel or on the Kafka outlink channel, starts an
\* outlink goroutine or makes a further captureAsset call.
C6_AssetNonRecursion ==
    [][\A w \in DOMAIN wk :
         /\ wk[w].pc \in {"aGet", "aFetched"} =>
              \A i \in 1..Len(Chain(wk[w].gItem)) :
                Chain(wk[w].gItem)[i].type = "asset"
         /\ (wk[w].pc \in AssetPcs /\ wk'[w] # wk[w]) =>
              /\ UNCHANGED <<PushChan, KafkaProducerChannel, outlinkTasks, queue>>
              /\ wk'[w].acalls = wk[w].acalls
              /\ wk'[w].assets = wk[w].assets
              /\ wk'[w].pc \in {"aGet", "aFetched"} =>
                   \A i \in 1..Len(Chain(wk'[w].gItem)) :
                     Chain(wk'[w].gItem)[i].type = "asset"]_vars

\* captureAsset followed a redirection
C6_Witness ==
    \E w \in DOMAIN wk :
      /\ wk[w].pc = "aFetched"
      /\ wk[w].gItem.redirect > 0
      /\ wk[w].gItem.type = "asset"

\* C7. Counter consistency of the asset loop: what a Capture has added to
\* QueueCount is always the number of assets its loop has not reached yet,
\* so its net change is zero when it returns; QueueCount is never negative,
\* and with no capture in flight it is the number of items in the frontier.
C7_CounterConsistency ==
    /\ QueueCount >= 0
    /\ \A w \in DOMAIN wk :
         /\ wk[w].qdelta = Len(wk[w].assets)
         /\ wk[w].pc = "done" => wk[w].qdelta = 0
    /\ (\A w \in DOMAIN wk : wk[w].pc \in {"idle", "done"})
         => QueueCount = Len(queue)

\* a Capture returned after its asset loop, beside an item still queued
C7_Witness ==
    /\ \E w \in DOMAIN wk : wk[w].pc = "done" /\ wk[w].adone >= 1
    /\ \A w \in DOMAIN wk : wk[w].pc \in {"idle", "done"}
    /\ QueueCount = 1

\* the success records among the entries of ev or aev
NLogs(ev) == Cardinality({i \in 1..Len(ev) : ev[i].e = "log"})

\* what a call may have done so far: nothing; its fetch; its fetch, without
\* error, then one success record for the given item and status
FetchedOnly(ev) == Len(ev) = 1 /\ ev[1].e = "fetch"
FetchedAndLogged(ev, item, status) ==
    /\ Len(ev) >= 2
    /\ ev[1] = FetchEvent(TRUE)
    /\ ev[2].e = "log"
    /\ ev[2].rec.hop = item.hop /\ ev[2].rec.type = item.type
    /\ ev[2].rec.status_code = status
    /\ NLogs(ev) = 1

\* C9. Success log exactly once, in order.  A Capture whose fetch returned
\* without error has emitted exactly one success record, right after the
\* fetch and before the outlink enqueue is started and before any
\* captureAsset call; one whose fetch returned an error has emitted none and
\* has returned.  The same holds of every captureAsset call, and at most one
\* captureAsset call is under way, the earlier ones having returned.
C9_SuccessLogOnce ==
    \A w \in DOMAIN wk :
      LET me == wk[w] IN
      /\ me.pc \in {"idle", "start", "get", "panic"} => me.ev = <<>>
      /\ me.pc = "fetched" => FetchedOnly(me.ev)
      /\ me.pc \in {"scrape", "assets", "loop"} \cup AssetPcs =>
           /\ FetchedAndLogged(me.ev, me.item, me.cresp.status)
           /\ Len(me.ev) <= 3
           /\ Len(me.ev) = 3 => me.ev[3] = OutlinksEvent /\ me.pc # "scrape"
      /\ me.pc = "done" =>
           \/ me.ev = <<FetchEvent(FALSE)>> /\ me.acalls = 0
           \/ /\ FetchedAndLogged(me.ev, me.item, me.cresp.status)
              /\ Len(me.ev) = 3 => me.ev[3] = OutlinksEvent
      /\ me.acalls > 0 => NLogs(me.ev) = 1
      /\ me.acalls - me.adone = IF me.pc \in AssetPcs THEN 1 ELSE 0
      /\ me.pc \in {"aSeen", "aMark", "aGet"} => me.aev = <<>>
      /\ me.pc = "aFetched" => FetchedOnly(me.aev)
      /\ (me.pc \in {"loop", "done"} /\ me.adone > 0) =>
           \/ me.aev = <<>>                      \* skipped by the seencheck
           \/ me.aev = <<FetchEvent(FALSE)>>     \* the fetch returned an error
           \/ /\ Len(me.aev) = 2
              /\ me.aev[1] = FetchEvent(TRUE)
              /\ me.aev[2].e = "log" /\ me.aev[2].rec.type = "asset"

\* a Capture that logged, started the outlink enqueue and captured an asset
C9_Witness ==
    \E w \in DOMAIN wk :
      /\ wk[w].pc = "done"
      /\ Len(wk[w].ev) = 3
      /\ wk[w].adone >= 1
      /\ Len(wk[w].aev) = 2

\* scenario S1 at the return of Capture's fetch: the seed a was answered
\* with a redirection that executeGET followed to b, and b with 200
S1(me) ==
    /\ me.pc = "scrape"
    /\ me.item.url = "a" /\ me.item.redirect = 0
    /\ me.gItem.parent = <<me.item>>
    /\ me.cresp.reqURL = "b"
    /\ me.cresp.status = 200

\* C10 (as claimed). In scenario S1 there are two fetches, the inner call
\* runs on an item with redirect = 1, and the one success record is for b.
C10_RecordForTarget ==
    \A w \in DOMAIN wk :
      S1(wk[w]) =>
        /\ wk[w].nreq = 2
        /\ wk[w].gItem.redirect = 1
        /\ NLogs(wk[w].ev) = 1
        /\ wk[w].ev[2].rec.url = "b"

\* C10 (amended). In scenario S1 there are two fetches, the inner call runs
\* on an item with redirect = 1 and URL b, and the one success record is for
\* the seed URL a, with the status code 200 of the response for b.
C10_RecordForSeed ==
    \A w \in DOMAIN wk :
      S1(wk[w]) =>
        /\ wk[w].nreq = 2
        /\ wk[w].gItem.redirect = 1 /\ wk[w].gItem.url = "b"
        /\ NLogs(wk[w].ev) = 1
        /\ wk[w].ev[2].rec.url = "a"
        /\ wk[w].ev[2].rec.status_code = 200

\* scenario S1 happened and its success record was emitted
C10_Witness ==
    \E w \in DOMAIN wk : S1(wk[w]) /\ Len(wk[w].ev) = 2 /\ wk[w].ev[2].e = "log"

\* the Referer the design asks of Capture
ExpectedReferer(item) ==
    IF item.hop > 0 /\ item.parent # <<>> /\ Len(item.parent[1].url) > 0
      THEN item.parent[1].url
      ELSE HostOf(item.url)

\* C11 (as claimed). No item failure is fatal when choosing the Referer:
\* for every item with a URL that reaches Capture, also one ingested from a
\* Kafka message with hop > 0 and an empty parent_url, Capture does not
\* fail, and the request it goes to the fetch with carries the parent URL
\* as Referer if hop > 0 and there is a parent, the item's host otherwise.
C11_RefererNeverFatal ==
    \A w \in DOMAIN wk :
      LET me == wk[w] IN
      me.item.url # NilURL =>
        /\ me.pc # "panic"
        /\ (me.pc = "get" /\ me.nreq = 0) => me.req.Referer = ExpectedReferer(me.item)

\* Capture failed on choosing the Referer for an item with a URL and hop > 0
\* that the consumer had pushed without a parent
C11_Witness ==
    /\ crashed
    /\ \E w \in DOMAIN wk, r \in consPushed :
         /\ wk[w].pc = "panic"
         /\ wk[w].item = r.item
         /\ r.item.url # NilURL /\ r.item.hop > 0 /\ r.item.parent = <<>>
         /\ r.msg.parent_url = ""

\* Capture has parsed the response document of its item and is extracting
\* from it, or has extracted its outlinks
Extracting(me) ==
    \/ me.pc \in {"assets", "loop"} \cup AssetPcs
    \/ HasEvent(me.ev, "outlinks")

\* C12 (as claimed). Data-model invariant 1: every item whose response
\* document Capture parses and extracts from (outlinks or assets) has
\* hop <= MaxHops, also when the Kafka consumer pushed it with the hop value
\* of the message.
C12_ExtractionHopBound ==
    \A w \in DOMAIN wk : Extracting(wk[w]) => wk[w].item.hop <= MaxHops

\* the assets of an item the consumer pushed with hop > MaxHops were
\* extracted and one of them is being captured
C12_Witness ==
    \E w \in DOMAIN wk, r \in consPushed :
      /\ wk[w].item = r.item
      /\ r.msg.hop > MaxHops
      /\ wk[w].pc = "aGet"
      /\ ~HasEvent(wk[w].ev, "outlinks")

\* C13 (as claimed). Best-effort parent: for every message that decodes and
\* whose u parses, the item the consumer sends to the Frontier has url = u,
\* type seed and hop = msg.hop, also when parent_url is non-empty and does
\* not parse; the consumer never pushes an item without a URL.
C13_BestEffortParent ==
    \A r \in consPushed \cup BagToSet(readersPush) :
      /\ r.item.url # NilURL
      /\ r.item.url = r.msg.u
      /\ r.item.type = "seed"
      /\ r.item.hop = r.msg.hop

\* the consumer pushed the zero item for a message whose parent_url did
\* not parse
C13_Witness ==
    \E r \in consPushed :
      /\ r.msg.valid /\ r.msg.u \in URLs /\ r.msg.parent_url = BadURL
      /\ r.item = ZeroItem
      /\ \E i \in 1..Len(PushChan) : PushChan[i] = ZeroItem

\* C14 (as claimed). No outlink is dropped by the producer: every item the
\* loop received from the outlink channel was handed to a Produce call that
\* returned no error, or was sent on the Frontier's push channel, or is
\* still at hand; none was let go, also not the item received after the
\* Finished flag was set.
C14_NoOutlinkDropped ==
    /\ prodDropped = <<>>
    /\ ppc \in {"flush", "done"} => pItem = <<>>
    /\ Len(prodFallback) + (IF ppc = "fallback" THEN 1 ELSE 0) = Len(prodFailed)

\* the producer left its loop with the item it had just received
C14_Witness ==
    /\ ppc = "done"
    /\ Finished
    /\ Len(prodDropped) = 1
    /\ \A i \in 1..Len(produced) : produced[i] # KafkaMessageOf(prodDropped[1])
    /\ \A i \in 1..Len(prodFallback) : prodFallback[i] # prodDropped[1]

\* the consumer loop has observed the Finished flag
ObservedFinished == cpc \in {"wait", "done"}

\* C15. Consumer shutdown ordering: once the consumer loop has observed the
\* Finished flag it spawns no further reader task and acquires no slot; it
\* closes the Kafka client only from its wait, with no reader task in flight
\* and every slot released; after the close no reader task exists, and no
\* ReadMessage call is ever made on the closed client.
C15_ShutdownOrdering ==
    [][/\ ObservedFinished =>
            /\ Finished
            /\ readersStart' <= readersStart
            /\ poolSlots' <= poolSlots
            /\ spawnsLeft' = spawnsLeft
            /\ cpc' \in {"wait", "done"}
       /\ (~kafkaClosed /\ kafkaClosed') =>
            cpc = "wait" /\ InFlight = 0 /\ poolSlots = 0
       /\ kafkaClosed =>
            kafkaClosed' /\ InFlight' = 0 /\ readersStart' = readersStart
       /\ ~readAfterClose /\ ~readAfterClose']_vars

\* the client was closed after reader tasks had run and pushed
C15_Witness ==
    /\ kafkaClosed /\ cpc = "done"
    /\ spawnsLeft = 0
    /\ nConsPushed >= 1
    /\ InFlight = 0

\* C16 (as claimed). Producer shutdown: after the Finished flag is set the
\* producer eventually leaves its loop, flushes and terminates, under fair
\* scheduling, whether or not a further item arrives on the outlink channel.
C16_ProducerTerminates == Finished ~> (ppc = "done")

\* the Finished flag is set and the producer is blocked in the receive of
\* its range loop, with no item in the channel and none to come
C16_Witness ==
    /\ Finished
    /\ ppc = "recv"
    /\ KafkaProducerChannel = <<>>
    /\ outlinkTasks = EmptyBag
    /\ PushChan = <<>>

\* C17. Bounded Kafka reader pool: at most 16 reader tasks are in flight,
\* and the slots held are exactly the tasks that have not returned: every
\* task releases its slot once, whichever way it ends (read error, decode
\* error, URL parse error, item pushed), and never more than once.
C17_BoundedPool ==
    /\ InFlight <= KafkaPoolSize
    /\ poolSlots = InFlight
    /\ poolSlots >= 0
    /\ cpc = "done" => poolSlots = 0

\* all 16 slots are held and the loop is blocked in Add with a task to spawn
C17_Witness ==
    /\ InFlight = KafkaPoolSize
    /\ poolSlots = KafkaPoolSize
    /\ cpc = "add"
    /\ spawnsLeft > 0
    /\ ~ENABLED ConsumerSpawn

\* C18 (as claimed). Asset seencheck under concurrency: with seencheck
\* enabled, captureAsset requests an asset only after marking its hash, and
\* in every interleaving of concurrent captures each asset URL hash is
\* requested at most once in a run.
C18_AssetFetchedOnce ==
    Seencheck =>
      \A h \in BagToSet(assetFetches) :
        /\ h \in seen
        /\ CopiesIn(h, assetFetches) <= 1

\* two captures passed the probe for the same asset before either marked
\* it, and both requested it
C18_Witness ==
    /\ Seencheck
    /\ \E v, w \in DOMAIN wk :
         /\ v # w
         /\ wk[v].pc = "aFetched" /\ wk[w].pc = "aFetched"
         /\ wk[v].asset.hash = wk[w].asset.hash
         /\ wk[v].asset.hash \in seen
         /\ CopiesIn(wk[v].asset.hash, assetFetches) = 2

\* executeGET is about to issue the request for a redirect target
AtRedirectRequest(me) == me.pc \in {"get", "aGet"} /\ me.gItem.redirect > 0

\* C19 (as claimed). Redirect request headers: for every redirect hop
\* executeGET follows, the request issued for the redirect target carries
\* the configured User-Agent, Accept-Encoding */* and, as Referer, the URL
\* of the item that was redirected, and the request that was already sent
\* is left as it was sent.
C19_RedirectHeaders ==
    \A w \in DOMAIN wk :
      LET me == wk[w] IN
      AtRedirectRequest(me) =>
        /\ me.req.url = me.gItem.url
        /\ me.req.UserAgent = ConfiguredUserAgent
        /\ me.req.AcceptEncoding = "*/*"
        /\ me.req.Referer = me.gItem.parent[1].url
        /\ me.oldReq = me.sentReq

\* the request for a redirect target is about to go out without a header,
\* the three headers having been set on the request sent before
C19_Witness ==
    \E w \in DOMAIN wk :
      LET me == wk[w] IN
      /\ AtRedirectRequest(me)
      /\ me.req = NewRequest(me.gItem.url)
      /\ me.oldReq # me.sentReq
      /\ me.oldReq.url = me.sentReq.url
      /\ me.oldReq.UserAgent = ConfiguredUserAgent
      /\ me.oldReq.AcceptEncoding = "*/*"
      /\ me.oldReq.Referer = me.gItem.parent[1].url

\* the admission check is made in this step
AdmissionChecked == cpc = "admit" /\ cpc' # "admit"

\* C20 (as claimed). Admission threshold arithmetic: for every
\* Workers >= 1 and ActiveWorkers in 0..Workers the consumer pauses exactly
\* when fewer than 10% of the workers are idle:
\* 10 * (Workers - ActiveWorkers) < Workers.
C20_FewerThanTenPercentIdle ==
    [][AdmissionChecked =>
         (cpc' = "sleep" <=> 10 * (Workers - ActiveWorkers) < Workers)]_vars

\* C20 (amended). For every Workers >= 1 and ActiveWorkers in 0..Workers
\* the consumer pauses exactly when ActiveWorkers >= Workers - Workers/10,
\* which is exactly when at most 10% of the workers are idle:
\* 10 * (Workers - ActiveWorkers) <= Workers.
C20_AtMostTenPercentIdle ==
    [][AdmissionChecked =>
         /\ Workers >= 1 /\ ActiveWorkers \in 0..Workers
         /\ cpc' = "sleep" <=> ActiveWorkers >= Workers - (Workers \div 10)
         /\ cpc' = "sleep" <=> 10 * (Workers - ActiveWorkers) <= Workers
         /\ cpc' = "add" <=> 10 * (Workers - ActiveWorkers) > Workers]_vars

\* the consumer paused with exactly 10% of the workers idle
C20_Witness ==
    /\ cpc = "sleep"
    /\ 10 * (Workers - cObserved) = Workers
    /\ cObserved = ActiveWorkers

====
